---- MODULE Spec2Model ----
(***************************************************************************)
(* s3-warden (src/main.go): a worker pool that reads bucket names from     *)
(* standard input, hands them to `concurrency` goroutines over an          *)
(* unbuffered channel, and runs processBucket on each one.                 *)
(*                                                                         *)
(* The state is the Go program's: the four flags, the scanner position,    *)
(* the channel, each goroutine's position and locals, what has been        *)
(* printed, and the part of the remote S3 state the calls read and write.  *)
(***************************************************************************)
EXTENDS Integers, Sequences, FiniteSets, TLC

VARIABLES
    verbose,      \* flag -v (main.go:22)
    aggressive,   \* flag -a (main.go:23)
    quick,        \* flag -q (main.go:24)
    concurrency,  \* flag -c (main.go:25)
    stdin,        \* the lines of standard input, in order
    scanned,      \* lines consumed by scanner.Scan() so far
    mainPc,       \* where the main goroutine is
    closed,       \* bucketsChan has been closed
    wk,           \* worker goroutine -> its position and locals
    proc,         \* the process: running, or how it ended
    world,        \* remote S3 state: bucket -> ACL and objects
    world0,       \* the remote state before the run
    started,      \* input line -> times processBucket was entered for it
    result,       \* input line -> the exits of its processBucket calls
    faults,       \* remote calls that have failed so far
    cl            \* the grant loop applied to one grant list on its own

vars == <<verbose, aggressive, quick, concurrency, stdin, scanned, mainPc,
          closed, wk, proc, world, world0, started, result, faults, cl>>

----------------------------------------------------------------------------
(* Bounds of the model.                                                    *)

MaxWorkers == 2     \* largest -c value explored
MaxInput == 2       \* most lines on standard input (pool scenario)
MaxGrants == 2      \* longest grant list given to the grant loop on its own
MaxObjects == 7     \* most objects in a bucket (single-bucket scenario)
PoolObjects == 1    \* most objects in a bucket (pool scenario)
PageSize == 2       \* objects per ListObjectsV2 page
MaxFaults == 1      \* most calls that fail in one run

(* Program constants.                                                      *)

IssueLimit == 5     \* main.go:317  issueCounter >= 5
TestKey == 2        \* main.go:98   where "s3-warden-test.txt" sorts among the keys

----------------------------------------------------------------------------
(* Access-control grants (types.Grant of the SDK).  Grantee is a pointer   *)
(* and may be absent; Grantee.URI is a pointer and may be absent.          *)

AllUsers == "http://acs.amazonaws.com/groups/global/AllUsers"
AuthenticatedUsers == "http://acs.amazonaws.com/groups/global/AuthenticatedUsers"
NoURI == "nil"

GranteeTypes == {"nil", "Group", "CanonicalUser"}
URIs == {NoURI, AllUsers, AuthenticatedUsers}
Permissions == {"READ", "WRITE", "FULL_CONTROL", "READ_ACP"}

Grant(t, u, p) == [gtype |-> t, uri |-> u, perm |-> p]

Grants ==
    {Grant(t, u, p) : t \in {"Group", "CanonicalUser"}, u \in URIs, p \in Permissions}
      \cup {Grant("nil", NoURI, p) : p \in Permissions}

SeqsUpTo(S, n) == UNION {[1..k -> S] : k \in 0..n}

GrantLists == SeqsUpTo(Grants, MaxGrants)

(* The condition of main.go:161 and main.go:299:                           *)
(*   grant.Grantee.Type == types.TypeGroup && *grant.Grantee.URI == "...AllUsers" *)
(* Reading .Type through a nil Grantee, or dereferencing a nil URI once    *)
(* the type is Group, is a nil-pointer panic.                              *)
GrantPanics(g) ==
    \/ g.gtype = "nil"
    \/ g.gtype = "Group" /\ g.uri = NoURI

IsPublicGrantee(g) == g.gtype = "Group" /\ g.uri = AllUsers

NoFlags == [panic |-> FALSE, hasPublicRead |-> FALSE, hasPublicWrite |-> FALSE]

(* The loop body with FULL_CONTROL left out of the write case.             *)
GrantBodyWriteOnly(acc, g) ==
    IF GrantPanics(g) THEN [acc EXCEPT !.panic = TRUE]
    ELSE IF ~IsPublicGrantee(g) THEN acc
    ELSE IF g.perm = "READ" THEN [acc EXCEPT !.hasPublicRead = TRUE]
    ELSE IF g.perm = "WRITE" THEN [acc EXCEPT !.hasPublicWrite = TRUE]
    ELSE acc

(* One iteration of the loop body, main.go:161-168 / main.go:299-306.      *)
GrantBody(acc, g) ==
    IF GrantPanics(g) THEN [acc EXCEPT !.panic = TRUE]
    ELSE IF ~IsPublicGrantee(g) THEN acc
    ELSE IF g.perm = "READ" THEN [acc EXCEPT !.hasPublicRead = TRUE]
    ELSE IF g.perm \in {"WRITE", "FULL_CONTROL"} THEN [acc EXCEPT !.hasPublicWrite = TRUE]
    ELSE acc

(* checkBucketACL's loop over aclOutput.Grants, main.go:157-169.           *)
RECURSIVE bucketGrantLoop(_, _, _)
bucketGrantLoop(grants, i, acc) ==
    IF i > Len(grants) \/ acc.panic THEN acc
    ELSE bucketGrantLoop(grants, i + 1, GrantBody(acc, grants[i]))

(* iterateBucket's loop over aclOutput.Grants, main.go:295-307.            *)
RECURSIVE objectGrantLoop(_, _, _)
objectGrantLoop(grants, i, acc) ==
    IF i > Len(grants) \/ acc.panic THEN acc
    ELSE objectGrantLoop(grants, i + 1, GrantBody(acc, grants[i]))

classifyBucketGrants(grants) == bucketGrantLoop(grants, 1, NoFlags)
classifyObjectGrants(grants) == objectGrantLoop(grants, 1, NoFlags)

----------------------------------------------------------------------------
(* Remote S3 state.  A bucket has an ACL and objects under integer keys    *)
(* (listing order is key order); oacl[k] is the ACL of object k.           *)

OwnerGrant == Grant("CanonicalUser", NoURI, "FULL_CONTROL")

AclPrivate == <<OwnerGrant>>
AclPublicRead == <<OwnerGrant, Grant("Group", AllUsers, "READ")>>
AclPublicWrite == <<OwnerGrant, Grant("Group", AllUsers, "WRITE")>>
AclPublicReadWrite ==
    <<OwnerGrant, Grant("Group", AllUsers, "READ"), Grant("Group", AllUsers, "WRITE")>>
AclPublicFull == <<Grant("Group", AllUsers, "FULL_CONTROL"), OwnerGrant>>
AclNoGrantee == <<OwnerGrant, Grant("nil", NoURI, "READ")>>

Max(a, b) == IF a >= b THEN a ELSE b
Keys == 1..Max(Max(MaxObjects, PoolObjects), TestKey)

Bucket(acl, n, oacl) ==
    [acl |-> acl,
     keys |-> {k \in Keys : k <= n},
     oacl |-> [k \in Keys |-> IF k <= n THEN oacl[k] ELSE <<>>]]

Uniform(a) == [k \in Keys |-> a]
FirstPrivate(a) == [k \in Keys |-> IF k = 1 THEN AclPrivate ELSE a]

(* What a successful PutObject of the test key leaves behind, main.go:199-203: *)
(* the object exists (created or overwritten) with the default private ACL. *)
PutObjectEffect(b) ==
    [b EXCEPT !.keys = @ \cup {TestKey}, !.oacl[TestKey] = AclPrivate]

(* A successful PutBucketAcl with GrantRead=AuthenticatedUsers,            *)
(* main.go:219-222: the grant headers replace the bucket's ACL.            *)
PutBucketAclEffect(b) ==
    [b EXCEPT !.acl = <<Grant("Group", AuthenticatedUsers, "READ")>>]

(* A successful PutObjectAcl with ACL "public-read", main.go:238-242: the  *)
(* canned ACL replaces the object's ACL.                                   *)
PutObjectAclEffect(b, key) ==
    [b EXCEPT !.oacl[key] = AclPublicRead]

RECURSIVE SortedSeq(_)
SortedSeq(S) ==
    IF S = {} THEN <<>>
    ELSE LET m == CHOOSE x \in S : \A y \in S : x <= y
         IN <<m>> \o SortedSeq(S \ {m})

(* One ListObjectsV2 page after continuation token `token`.                *)
ListPage(b, token) ==
    LET rest == SortedSeq({k \in b.keys : k > token})
        n == IF Len(rest) < PageSize THEN Len(rest) ELSE PageSize
    IN [keys |-> SubSeq(rest, 1, n), more |-> Len(rest) > PageSize]

----------------------------------------------------------------------------
(* Responses of the calls the pipeline makes.                              *)

Resp(op, err, why, region, grants, keys, more) ==
    [op |-> op, err |-> err, why |-> why, region |-> region, grants |-> grants,
     keys |-> keys, more |-> more]

Ok(op) == Resp(op, FALSE, "", "", <<>>, <<>>, FALSE)
Err(op) == Resp(op, TRUE, "error", "", <<>>, <<>>, FALSE)
NoResp == Ok("none")

(* getBucketRegion, main.go:105-125.  probe is the HEAD request's outcome: *)
(* a transport error, or a response whose x-amz-bucket-region header has   *)
(* the given value ("" when absent).                                       *)
RegionProbes ==
    {[neterr |-> TRUE, header |-> ""],
     [neterr |-> FALSE, header |-> ""],
     [neterr |-> FALSE, header |-> "us-west-2"]}

getBucketRegion(probe) ==
    IF probe.neterr THEN [Err("HeadBucket") EXCEPT !.why = "NetworkError"]
    ELSE IF probe.header = "" THEN [Err("HeadBucket") EXCEPT !.why = "RegionNotFound"]
    ELSE [Ok("HeadBucket") EXCEPT !.region = probe.header]

----------------------------------------------------------------------------
(* Printed lines.  A finding is printed in both modes; verbose mode colours *)
(* it and adds diagnostics.                                                *)

NoKey == 0

Finding(v, what, key, colour) ==
    [kind |-> "finding", what |-> what, key |-> key,
     colour |-> IF v THEN colour ELSE "plain"]

Diag(what, key) == [kind |-> "diag", what |-> what, key |-> key, colour |-> "plain"]

IfVerbose(v, what, key) == IF v THEN <<Diag(what, key)>> ELSE <<>>

(* A worker's locals.                                                      *)
IdleLocal ==
    [pc |-> "recv", task |-> 0, bucket |-> "", region |-> "",
     token |-> 0, more |-> FALSE, page |-> <<>>, idx |-> 0,
     issueCounter |-> 0, out |-> <<>>, ops |-> <<>>, resp |-> NoResp]

Emit(l, lines) == [l EXCEPT !.out = @ \o lines]

Called(l, op, key, r) ==
    [l EXCEPT !.ops = Append(@, [op |-> op, key |-> key]), !.resp = r]

Goto(l, pc) == [l EXCEPT !.pc = pc]

----------------------------------------------------------------------------
(* processBucket and the functions it calls, one operator per remote call. *)
(* Each takes the flags c, the worker's locals l and the call's response r *)
(* and gives the locals after the code up to the next call has run.        *)

(* config.LoadDefaultConfig, main.go:71-74.  On error log.Fatalf ends the  *)
(* process; the call never returns to processBucket.                       *)
loadConfig(c, l, r) ==
    IF r.err THEN [l EXCEPT !.resp = r]
    ELSE Goto([l EXCEPT !.resp = r], "ResolveRegion")

(* The region error branch without its return: the pipeline carries on.    *)
resolveRegionNoReturn(c, l, r) ==
    LET l1 == Called(l, "HeadBucket", NoKey, r)
    IN IF r.err
       THEN Goto(Emit(l1, IfVerbose(c.verbose, "Unable to get the region", NoKey)),
                 "CheckBucketACL")
       ELSE Goto(Emit([l1 EXCEPT !.region = r.region],
                      IfVerbose(c.verbose, "Bucket found in Region", NoKey)),
                 "CheckBucketACL")

(* main.go:76-88. *)
resolveRegion(c, l, r) ==
    LET l1 == Called(l, "HeadBucket", NoKey, r)
    IN IF r.err
       THEN Goto(Emit(l1, IfVerbose(c.verbose, "Unable to get the region", NoKey)), "Done")
       ELSE Goto(Emit([l1 EXCEPT !.region = r.region],
                      IfVerbose(c.verbose, "Bucket found in Region", NoKey)),
                 "CheckBucketACL")

(* checkBucketACL's printing, main.go:171-190. *)
bucketAclLines(v, f) ==
    (IF f.hasPublicWrite THEN <<Finding(v, "PublicWrite", NoKey, "red")>> ELSE <<>>)
    \o (IF f.hasPublicRead THEN <<Finding(v, "PublicRead", NoKey, "yellow")>> ELSE <<>>)
    \o (IF v /\ ~f.hasPublicRead /\ ~f.hasPublicWrite
        THEN <<Diag("No public access found on bucket", NoKey)>> ELSE <<>>)

(* checkBucketACL, main.go:146-193 (called at main.go:90). *)
checkBucketACL(c, l, r) ==
    LET l1 == Called(l, "GetBucketAcl", NoKey, r)
        f == classifyBucketGrants(r.grants)
    IN IF r.err
       THEN Goto(Emit(l1, IfVerbose(c.verbose, "Failed to get ACL for bucket", NoKey)),
                 "CheckOpenListing")
       ELSE IF f.panic THEN l1
       ELSE Goto(Emit(l1, bucketAclLines(c.verbose, f)), "CheckOpenListing")

(* The quick test placed after the aggressive block instead of before it.  *)
afterOpenListingQuickLate(c) ==
    IF c.aggressive THEN "TestUpload"
    ELSE IF c.quick THEN "Done"
    ELSE "NextPage"

(* The aggressive block entered at its second probe: no upload probe.      *)
afterOpenListingNoUpload(c) ==
    IF c.quick THEN "Done"
    ELSE IF c.aggressive THEN "PutBucketACP"
    ELSE "NextPage"

(* What processBucket does after checkOpenListing returns, main.go:93-102. *)
afterOpenListing(c) ==
    IF c.quick THEN "Done"
    ELSE IF c.aggressive THEN "TestUpload"
    ELSE "NextPage"

(* iterateBucket's entry, main.go:257-262: a fresh paginator and counter.  *)
enterIterate(l) ==
    [l EXCEPT !.token = 0, !.more = TRUE, !.page = <<>>, !.idx = 0,
              !.issueCounter = 0]

(* The call of main.go:102 starts iterateBucket; the other stages keep the  *)
(* locals as they are.                                                     *)
callNext(l, pc) == IF pc = "NextPage" THEN Goto(enterIterate(l), pc) ELSE Goto(l, pc)

(* checkOpenListing, main.go:127-144 (called at main.go:91). *)
checkOpenListing(c, l, r) ==
    LET l1 == Called(l, "ListObjectsV2One", NoKey, r)
        lines == IF r.err
                 THEN IfVerbose(c.verbose, "No open directory listing found", NoKey)
                 ELSE <<Finding(c.verbose, "OpenListing", NoKey, "yellow")>>
    IN callNext(Emit(l1, lines), afterOpenListing(c))

(* testUpload announcing a successful upload in verbose mode only.         *)
testUploadVerboseOnly(c, l, r) ==
    LET l1 == Called(Emit(l, IfVerbose(c.verbose, "Attempting to upload file", NoKey)),
                     "PutObject", TestKey, r)
    IN Goto(IF r.err \/ ~c.verbose THEN l1
            ELSE Emit(l1, <<Finding(c.verbose, "UploadAllowed", NoKey, "green")>>),
            "PutBucketACP")

(* testUpload, main.go:195-213 (called at main.go:98). *)
testUpload(c, l, r) ==
    LET l1 == Called(Emit(l, IfVerbose(c.verbose, "Attempting to upload file", NoKey)),
                     "PutObject", TestKey, r)
    IN Goto(IF r.err THEN l1
            ELSE Emit(l1, <<Finding(c.verbose, "UploadAllowed", NoKey, "green")>>),
            "PutBucketACP")

(* putBucketACP, main.go:215-232 (called at main.go:99). *)
putBucketACP(c, l, r) ==
    LET l1 == Called(Emit(l, IfVerbose(c.verbose, "Attempting to write bucket ACP", NoKey)),
                     "PutBucketAcl", NoKey, r)
    IN callNext(IF r.err THEN l1
                ELSE Emit(l1, <<Finding(c.verbose, "BucketPolicyWritable", NoKey, "green")>>),
                "NextPage")

(* The first call made for an object of the page, main.go:273-276.         *)
objectEntry(c) == IF c.aggressive THEN "PutObjectACP" ELSE "GetObjectAcl"

(* The loop heads once an object is finished: the inner range loop of      *)
(* main.go:273, then paginator.HasMorePages() of main.go:264.              *)
nextObject(c, l) ==
    IF l.idx < Len(l.page) THEN Goto([l EXCEPT !.idx = @ + 1], objectEntry(c))
    ELSE IF l.more THEN Goto(l, "NextPage")
    ELSE Goto(l, "Done")

(* The page error branch with `continue` in place of `break`.              *)
nextPageContinue(c, l, r) ==
    LET l1 == Called(l, "ListObjectsV2Page", l.token, r)
        l2 == [l1 EXCEPT !.page = r.keys, !.idx = 0, !.more = r.more,
                         !.token = IF r.keys = <<>> THEN @ ELSE r.keys[Len(r.keys)]]
    IN IF r.err
       THEN Goto(Emit(l1, IfVerbose(c.verbose, "Failed to iterate page in bucket", NoKey)),
                 IF l.more THEN "NextPage" ELSE "Done")
       ELSE nextObject(c, l2)

(* paginator.NextPage and the start of the page's loop, main.go:264-273.   *)
nextPage(c, l, r) ==
    LET l1 == Called(l, "ListObjectsV2Page", l.token, r)
        l2 == [l1 EXCEPT !.page = r.keys, !.idx = 0, !.more = r.more,
                         !.token = IF r.keys = <<>> THEN @ ELSE r.keys[Len(r.keys)]]
    IN IF r.err
       THEN Goto(Emit(l1, IfVerbose(c.verbose, "Failed to iterate page in bucket", NoKey)),
                 "Done")
       ELSE nextObject(c, l2)

(* putObjectACP, main.go:234-254 (called at main.go:275). *)
putObjectACP(c, l, r) ==
    LET key == l.page[l.idx]
        l1 == Called(Emit(l, IfVerbose(c.verbose, "Attempting to write object ACP", key)),
                     "PutObjectAcl", key, r)
    IN Goto(IF r.err
            THEN Emit(l1, IfVerbose(c.verbose, "Failed to write object ACP", key))
            ELSE Emit(l1, <<Finding(c.verbose, "ObjectPolicyWritable", key, "green")>>),
            "GetObjectAcl")

(* The limit tested with > in place of >=.                                 *)
objectAclResultPastLimit(c, l, key, f) ==
    LET counted == IF f.hasPublicWrite THEN l.issueCounter + 1 ELSE l.issueCounter
        l1 == [l EXCEPT !.issueCounter = counted]
        w == IF f.hasPublicWrite
             THEN <<Finding(c.verbose, "PublicWrite", key, "red")>> ELSE <<>>
        rd == IF f.hasPublicRead
              THEN <<Finding(c.verbose, "PublicRead", key, "yellow")>> ELSE <<>>
    IN IF f.hasPublicWrite /\ counted > IssueLimit
       THEN Goto(Emit(l1, w \o IfVerbose(c.verbose,
                                 "Found 5 objects with public write permissions", NoKey)),
                 "Done")
       ELSE nextObject(c, Emit(l1, w \o rd))

(* The printing and counting after an object's grants are classified,      *)
(* main.go:309-333.                                                        *)
objectAclResult(c, l, key, f) ==
    LET counted == IF f.hasPublicWrite THEN l.issueCounter + 1 ELSE l.issueCounter
        l1 == [l EXCEPT !.issueCounter = counted]
        w == IF f.hasPublicWrite
             THEN <<Finding(c.verbose, "PublicWrite", key, "red")>> ELSE <<>>
        rd == IF f.hasPublicRead
              THEN <<Finding(c.verbose, "PublicRead", key, "yellow")>> ELSE <<>>
    IN IF f.hasPublicWrite /\ counted >= IssueLimit
       THEN Goto(Emit(l1, w \o IfVerbose(c.verbose,
                                 "Found 5 objects with public write permissions", NoKey)),
                 "Done")
       ELSE nextObject(c, Emit(l1, w \o rd))

(* The ACL error branch with `break` in place of `continue`.               *)
getObjectAclStopsOnError(c, l, r) ==
    LET key == l.page[l.idx]
        l1 == Called(Emit(l, IfVerbose(c.verbose, "Checking ACP", key)),
                     "GetObjectAcl", key, r)
        f == classifyObjectGrants(r.grants)
    IN IF r.err
       THEN Goto(Emit(l1, IfVerbose(c.verbose, "Failed to get ACL for object", key)), "Done")
       ELSE IF f.panic THEN l1
       ELSE objectAclResult(c, l1, key, f)

(* client.GetObjectAcl and what follows it, main.go:277-333. *)
getObjectAcl(c, l, r) ==
    LET key == l.page[l.idx]
        l1 == Called(Emit(l, IfVerbose(c.verbose, "Checking ACP", key)),
                     "GetObjectAcl", key, r)
        f == classifyObjectGrants(r.grants)
    IN IF r.err
       THEN nextObject(c, Emit(l1, IfVerbose(c.verbose, "Failed to get ACL for object", key)))
       ELSE IF f.panic THEN l1
       ELSE objectAclResult(c, l1, key, f)

(* The stage a worker is in decides which of the above runs.               *)
pipelineStep(c, l, r) ==
    CASE l.pc = "LoadConfig" -> loadConfig(c, l, r)
      [] l.pc = "ResolveRegion" -> resolveRegion(c, l, r)
      [] l.pc = "CheckBucketACL" -> checkBucketACL(c, l, r)
      [] l.pc = "CheckOpenListing" -> checkOpenListing(c, l, r)
      [] l.pc = "TestUpload" -> testUpload(c, l, r)
      [] l.pc = "PutBucketACP" -> putBucketACP(c, l, r)
      [] l.pc = "NextPage" -> nextPage(c, l, r)
      [] l.pc = "PutObjectACP" -> putObjectACP(c, l, r)
      [] l.pc = "GetObjectAcl" -> getObjectAcl(c, l, r)
      [] OTHER -> l

(* log.Fatalf on every failed call, not only on a failed config load.      *)
procAfterFatalOnAnyError(l, r) ==
    IF r.err THEN "fatal"
    ELSE IF l.pc = "CheckBucketACL" /\ classifyBucketGrants(r.grants).panic THEN "panic"
    ELSE IF l.pc = "GetObjectAcl" /\ classifyObjectGrants(r.grants).panic THEN "panic"
    ELSE "running"

(* How the process stands after that step: log.Fatalf (main.go:72-74) is   *)
(* os.Exit(1); a nil dereference in a grant loop (main.go:161, 299) is an  *)
(* unrecovered panic in a goroutine, which ends the process.               *)
procAfter(l, r) ==
    IF l.pc = "LoadConfig" /\ r.err THEN "fatal"
    ELSE IF l.pc = "CheckBucketACL" /\ ~r.err /\ classifyBucketGrants(r.grants).panic
    THEN "panic"
    ELSE IF l.pc = "GetObjectAcl" /\ ~r.err /\ classifyObjectGrants(r.grants).panic
    THEN "panic"
    ELSE "running"

(* What the call leaves in the remote state.                               *)
worldAfter(wd, l, r) ==
    IF r.err THEN wd
    ELSE IF l.pc = "TestUpload" THEN [wd EXCEPT ![l.bucket] = PutObjectEffect(@)]
    ELSE IF l.pc = "PutBucketACP" THEN [wd EXCEPT ![l.bucket] = PutBucketAclEffect(@)]
    ELSE IF l.pc = "PutObjectACP"
    THEN [wd EXCEPT ![l.bucket] = PutObjectAclEffect(@, l.page[l.idx])]
    ELSE wd

(* Which return of processBucket a step into Done is.                      *)
exitBranch(c, l, r) ==
    IF l.pc = "ResolveRegion" THEN "RegionFailed"
    ELSE IF l.pc = "CheckOpenListing" THEN "Quick"
    ELSE IF l.pc = "NextPage" /\ r.err THEN "PageError"
    ELSE IF l.pc = "GetObjectAcl" /\ ~r.err
            /\ classifyObjectGrants(r.grants).hasPublicWrite
            /\ l.issueCounter + 1 >= IssueLimit THEN "EarlyExit"
    ELSE "Complete"

----------------------------------------------------------------------------
(* Initial states: flags as parsed, the workers spawned (main.go:49-57),   *)
(* nothing read from standard input yet.                                   *)

PoolNames == {"public-bucket", "private-bucket", "odd-bucket"}
BigName == "big-bucket"
BucketNames == PoolNames \cup {BigName}

MinOf(a, b) == IF a <= b THEN a ELSE b

(* The buckets behind the names of the pool scenario.                      *)
PoolWorld ==
    [b \in BucketNames |->
        CASE b = "public-bucket" -> Bucket(AclPublicReadWrite, PoolObjects, Uniform(AclPublicFull))
          [] b = "private-bucket" -> Bucket(AclPrivate, MinOf(PoolObjects, 1), Uniform(AclPublicRead))
          [] b = "odd-bucket" -> Bucket(AclNoGrantee, 0, Uniform(AclPrivate))
          [] OTHER -> Bucket(AclPrivate, 0, Uniform(AclPrivate))]

(* The buckets the single-bucket scenario enumerates.                      *)
BigBuckets ==
    {Bucket(AclPrivate, n, f) :
        n \in 0..MaxObjects,
        f \in {Uniform(AclPublicFull), Uniform(AclPublicReadWrite),
               FirstPrivate(AclPublicWrite)}}

(* The spawn loop running once too often (i <= concurrency).               *)
SpawnedWorkersOneMore(c) == 1..(c + 1)

(* The spawn loop stopping one short (i < concurrency - 1).                 *)
SpawnedWorkersOneLess(c) == 1..(c - 1)

(* The goroutines main.go:49-57 starts: i = 0 .. concurrency-1.            *)
SpawnedWorkers(c) == 1..c

Concurrencies == -1..MaxWorkers

IdleCl == [grants |-> <<>>, site |-> "idle", flags |-> NoFlags]

InitCommon ==
    /\ verbose \in BOOLEAN
    /\ aggressive \in BOOLEAN
    /\ quick \in BOOLEAN
    /\ scanned = 0
    /\ mainPc = "scan"
    /\ closed = FALSE
    /\ wk = [w \in SpawnedWorkers(concurrency) |-> IdleLocal]
    /\ proc = "running"
    /\ started = [i \in 1..Len(stdin) |-> 0]
    /\ result = [i \in 1..Len(stdin) |-> <<>>]
    /\ faults = 0
    /\ world0 = world
    /\ cl = IdleCl

(* Several names on standard input, several workers, small buckets.        *)
InitPool ==
    /\ concurrency \in Concurrencies
    /\ stdin \in SeqsUpTo(PoolNames, MaxInput)
    /\ world = PoolWorld
    /\ InitCommon

(* One name on standard input, one worker, a bucket with many objects.     *)
InitBig ==
    /\ concurrency = 1
    /\ stdin = <<BigName>>
    /\ world \in {[PoolWorld EXCEPT ![BigName] = b] : b \in BigBuckets}
    /\ InitCommon

(* A bucket whose IssueLimit objects are all publicly writable, followed   *)
(* by a small bucket: one worker taking both in turn, or two workers       *)
(* taking one each.                                                        *)
InitPair ==
    /\ concurrency \in 1..2
    /\ stdin = <<BigName, "private-bucket">>
    /\ world = [PoolWorld EXCEPT
                  ![BigName] = Bucket(AclPrivate, IssueLimit, Uniform(AclPublicFull))]
    /\ InitCommon

Init == InitPool \/ InitBig \/ InitPair

Cfg == [verbose |-> verbose, aggressive |-> aggressive, quick |-> quick]

----------------------------------------------------------------------------
(* The main goroutine, main.go:59-66.                                      *)

(* scanner.Scan() of main.go:60: the next line, or end of input.           *)
Scan ==
    /\ proc = "running" /\ mainPc = "scan"
    /\ IF scanned < Len(stdin)
       THEN scanned' = scanned + 1 /\ mainPc' = "send"
       ELSE scanned' = scanned /\ mainPc' = "close"
    /\ UNCHANGED <<verbose, aggressive, quick, concurrency, stdin, closed, wk,
                   proc, world, world0, started, result, faults, cl>>

(* Goroutine w was spawned, the process is alive, and w is at pc.          *)
At(w, pc) == proc = "running" /\ w \in DOMAIN wk /\ wk[w].pc = pc

(* The worker's locals when processBucket is entered, main.go:53-54, 70.   *)
Received(task, name) ==
    [IdleLocal EXCEPT !.pc = "LoadConfig", !.task = task, !.bucket = name]

(* A send that is not consumed by its receive: main offers the name again. *)
afterSendOfferAgain == "send"

(* Where main goes once its send has been received, main.go:62 -> 60.      *)
afterSend == "scan"

(* A channel with room for any number of names: the send returns at once   *)
(* and no worker is involved.                                              *)
HandoffBuffered(w) ==
    /\ mainPc = "send" /\ ~closed
    /\ proc = "running" /\ w \in DOMAIN wk
    /\ mainPc' = afterSend
    /\ UNCHANGED <<verbose, aggressive, quick, concurrency, stdin, scanned,
                   closed, wk, proc, world, world0, started, result, faults, cl>>

(* The rendezvous on the unbuffered channel: main's send of main.go:62     *)
(* meets worker w's receive of main.go:53, and w calls processBucket.      *)
Handoff(w) ==
    /\ mainPc = "send" /\ ~closed
    /\ At(w, "recv")
    /\ wk' = [wk EXCEPT ![w] = Received(scanned, stdin[scanned])]
    /\ started' = [started EXCEPT ![scanned] = @ + 1]
    /\ mainPc' = afterSend
    /\ UNCHANGED <<verbose, aggressive, quick, concurrency, stdin, scanned,
                   closed, proc, world, world0, result, faults, cl>>

(* close(bucketsChan), main.go:64. *)
Close ==
    /\ proc = "running" /\ mainPc = "close"
    /\ closed' = TRUE
    /\ mainPc' = "wait"
    /\ UNCHANGED <<verbose, aggressive, quick, concurrency, stdin, scanned, wk,
                   proc, world, world0, started, result, faults, cl>>

(* No join: main returns right after closing the channel.                  *)
waitDoneNoJoin(workers) == TRUE

(* What wg.Wait() of main.go:66 waits for.                                 *)
waitDone(workers) == \A w \in DOMAIN workers : workers[w].pc = "exited"

(* wg.Wait() returns and main returns, main.go:66-68.                      *)
Wait ==
    /\ proc = "running" /\ mainPc = "wait"
    /\ waitDone(wk)
    /\ proc' = "exited"
    /\ mainPc' = "returned"
    /\ UNCHANGED <<verbose, aggressive, quick, concurrency, stdin, scanned,
                   closed, wk, world, world0, started, result, faults, cl>>

(* main blocked in the send of main.go:62 with no other goroutine: the Go  *)
(* runtime ends the process ("all goroutines are asleep - deadlock!").     *)
Deadlock ==
    /\ proc = "running" /\ mainPc = "send"
    /\ DOMAIN wk = {}
    /\ proc' = "deadlock"
    /\ UNCHANGED <<verbose, aggressive, quick, concurrency, stdin, scanned,
                   mainPc, closed, wk, world, world0, started, result, faults, cl>>

----------------------------------------------------------------------------
(* The worker goroutines, main.go:51-56.                                   *)

(* A worker that handles one bucket and leaves (no loop around the receive). *)
WorkerLoopOnce(w) ==
    /\ At(w, "Done")
    /\ wk' = [wk EXCEPT ![w] = [IdleLocal EXCEPT !.pc = "exited"]]
    /\ UNCHANGED <<verbose, aggressive, quick, concurrency, stdin, scanned,
                   mainPc, closed, proc, world, world0, started, result, faults, cl>>

(* processBucket has returned; the range loop of main.go:53 receives again. *)
WorkerLoop(w) ==
    /\ At(w, "Done")
    /\ wk' = [wk EXCEPT ![w] = IdleLocal]
    /\ UNCHANGED <<verbose, aggressive, quick, concurrency, stdin, scanned,
                   mainPc, closed, proc, world, world0, started, result, faults, cl>>

(* The range loop ends on the closed channel; defer wg.Done(), main.go:52. *)
WorkerExit(w) ==
    /\ At(w, "recv") /\ closed
    /\ wk' = [wk EXCEPT ![w].pc = "exited"]
    /\ UNCHANGED <<verbose, aggressive, quick, concurrency, stdin, scanned,
                   mainPc, closed, proc, world, world0, started, result, faults, cl>>

(* Worker w makes the call of its stage, gets r, and runs to its next call. *)
Step(w, r) ==
    LET l == wk[w]
        l2 == pipelineStep(Cfg, l, r)
    IN /\ r.err => faults < MaxFaults
       /\ faults' = IF r.err THEN faults + 1 ELSE faults
       /\ wk' = [wk EXCEPT ![w] = l2]
       /\ proc' = procAfter(l, r)
       /\ world' = worldAfter(world, l, r)
       /\ result' = IF l2.pc = "Done" /\ l.pc # "Done"
                    THEN [result EXCEPT ![l.task] = Append(@, exitBranch(Cfg, l, r))]
                    ELSE result
       /\ UNCHANGED <<verbose, aggressive, quick, concurrency, stdin, scanned,
                      mainPc, closed, world0, started, cl>>

OkOrErr(op) == {Ok(op), Err(op)}

LoadConfig(w) ==
    At(w, "LoadConfig") /\ \E r \in OkOrErr("LoadDefaultConfig") : Step(w, r)

ResolveRegion(w) ==
    At(w, "ResolveRegion") /\ \E p \in RegionProbes : Step(w, getBucketRegion(p))

CheckBucketACL(w) ==
    /\ At(w, "CheckBucketACL")
    /\ \E r \in {Err("GetBucketAcl"),
                 [Ok("GetBucketAcl") EXCEPT !.grants = world[wk[w].bucket].acl]} :
          Step(w, r)

CheckOpenListing(w) ==
    At(w, "CheckOpenListing") /\ \E r \in OkOrErr("ListObjectsV2One") : Step(w, r)

TestUpload(w) ==
    At(w, "TestUpload") /\ \E r \in OkOrErr("PutObject") : Step(w, r)

PutBucketACP(w) ==
    At(w, "PutBucketACP") /\ \E r \in OkOrErr("PutBucketAcl") : Step(w, r)

NextPage(w) ==
    /\ At(w, "NextPage")
    /\ LET pg == ListPage(world[wk[w].bucket], wk[w].token)
       IN \E r \in {Err("ListObjectsV2Page"),
                    [Ok("ListObjectsV2Page") EXCEPT !.keys = pg.keys, !.more = pg.more]} :
             Step(w, r)

PutObjectACP(w) ==
    At(w, "PutObjectACP") /\ \E r \in OkOrErr("PutObjectAcl") : Step(w, r)

GetObjectAcl(w) ==
    /\ At(w, "GetObjectAcl")
    /\ LET l == wk[w]
       IN \E r \in {Err("GetObjectAcl"),
                    [Ok("GetObjectAcl") EXCEPT
                        !.grants = world[l.bucket].oacl[l.page[l.idx]]]} :
             Step(w, r)

Worker(w) ==
    \/ Handoff(w)
    \/ LoadConfig(w)
    \/ ResolveRegion(w)
    \/ CheckBucketACL(w)
    \/ CheckOpenListing(w)
    \/ TestUpload(w)
    \/ PutBucketACP(w)
    \/ NextPage(w)
    \/ PutObjectACP(w)
    \/ GetObjectAcl(w)
    \/ WorkerLoop(w)
    \/ WorkerExit(w)

Main == Scan \/ Close \/ Wait \/ Deadlock

(* Goroutine ids; wk holds the ones that were spawned.                     *)
WorkerIds == 1..(MaxWorkers + 1)

Next == Main \/ \E w \in WorkerIds : Worker(w)

Spec == Init /\ [][Next]_vars

(* The scheduler runs every goroutine that can run, and (no call stalls)   *)
(* every remote call returns; over the pool and the single-bucket          *)
(* scenarios.                                                              *)
LiveSpec ==
    /\ (InitPool \/ InitBig) /\ [][Next]_vars
    /\ WF_vars(Main)
    /\ \A w \in WorkerIds : WF_vars(Worker(w))

----------------------------------------------------------------------------
(* The two grant loops applied on their own to every grant list of up to   *)
(* MaxGrants grants.                                                       *)

ClassifyInit ==
    /\ cl \in [grants : GrantLists, site : {"idle"}, flags : {NoFlags}]
    /\ verbose = FALSE /\ aggressive = FALSE /\ quick = FALSE
    /\ concurrency = 0
    /\ stdin = <<>>
    /\ scanned = 0 /\ mainPc = "scan" /\ closed = FALSE
    /\ wk = <<>>
    /\ proc = "running"
    /\ world = PoolWorld /\ world0 = PoolWorld
    /\ started = <<>> /\ result = <<>>
    /\ faults = 0

pipelineVars == <<verbose, aggressive, quick, concurrency, stdin, scanned, mainPc,
                  closed, wk, proc, world, world0, started, result, faults>>

(* main.go:157-169 on cl.grants. *)
ClassifyBucketACL ==
    /\ cl.site = "idle"
    /\ cl' = [cl EXCEPT !.site = "bucket", !.flags = classifyBucketGrants(cl.grants)]
    /\ UNCHANGED pipelineVars

(* main.go:295-307 on cl.grants. *)
ClassifyObjectACL ==
    /\ cl.site = "idle"
    /\ cl' = [cl EXCEPT !.site = "object", !.flags = classifyObjectGrants(cl.grants)]
    /\ UNCHANGED pipelineVars

ClassifyNext == ClassifyBucketACL \/ ClassifyObjectACL

SpecClassify == ClassifyInit /\ [][ClassifyNext]_vars

----------------------------------------------------------------------------
(* Properties.                                                             *)

Lines == 1..Len(stdin)

(* Line i has been sent: main is past the send of main.go:62 for it.       *)
Sent(i) == i < scanned \/ (i = scanned /\ mainPc # "send")

(* The stages between entering processBucket and its return.               *)
InFlightStages ==
    {"LoadConfig", "ResolveRegion", "CheckBucketACL", "CheckOpenListing",
     "TestUpload", "PutBucketACP", "NextPage", "PutObjectACP", "GetObjectAcl"}

InFlight(w) == wk[w].pc \in InFlightStages

Holders(i) == {w \in DOMAIN wk : wk[w].task = i}

(* C1: with concurrency >= 1, every bucket name sent on the channel has    *)
(* been received by exactly one worker, which entered processBucket for it *)
(* exactly once; a name not yet sent has not been processed; no line is    *)
(* held by two workers; and when main returns every line of the input has  *)
(* been processed exactly once.                                            *)
C1_ExactlyOnce ==
    concurrency >= 1 =>
        /\ \A i \in Lines : started[i] = (IF Sent(i) THEN 1 ELSE 0)
        /\ \A i \in Lines : Cardinality(Holders(i)) <= 1
        /\ proc = "exited" => \A i \in Lines : started[i] = 1

(* Two workers, the same name twice on the input, both lines processed.    *)
C1_Witness ==
    /\ concurrency = 2 /\ Len(stdin) = 2 /\ stdin[1] = stdin[2]
    /\ proc = "exited"
    /\ started[1] = 1 /\ started[2] = 1

(* C2: the number of processBucket calls that have started and not yet     *)
(* returned never exceeds the concurrency setting (no worker exists when   *)
(* the setting is below 1).                                                *)
C2_AtMostK ==
    Cardinality({w \in DOMAIN wk : InFlight(w)}) <= Max(concurrency, 0)

(* The bound is reached: two pipelines in flight under -c 2.               *)
C2_Witness ==
    /\ concurrency = 2
    /\ Cardinality({w \in DOMAIN wk : InFlight(w)}) = 2

QuickStages == {"recv", "exited", "LoadConfig", "ResolveRegion", "CheckBucketACL",
                "CheckOpenListing", "Done"}
QuickOps == {"HeadBucket", "GetBucketAcl", "ListObjectsV2One"}

(* C3: under -q, with or without -a, no worker is ever in a probe or       *)
(* enumeration stage, no PutObject, PutBucketAcl, PutObjectAcl, paginated  *)
(* listing or GetObjectAcl call has been made, and every processBucket     *)
(* return is the region failure or the return after checkOpenListing.      *)
C3_QuickSkips ==
    quick =>
        /\ \A w \in DOMAIN wk :
              /\ wk[w].pc \in QuickStages
              /\ \A k \in DOMAIN wk[w].ops : wk[w].ops[k].op \in QuickOps
        /\ \A i \in Lines : \A k \in DOMAIN result[i] :
              result[i][k] \in {"RegionFailed", "Quick"}
        /\ world = world0

(* -q and -a together: a pipeline went through checkOpenListing to Done.   *)
C3_Witness ==
    /\ quick /\ aggressive
    /\ \E w \in DOMAIN wk :
          /\ wk[w].pc = "Done"
          /\ Len(wk[w].ops) = 3
          /\ wk[w].ops[3].op = "ListObjectsV2One"

(* A grant list reordered by the permutation p of its indices.             *)
Reordered(grants, p) == [i \in DOMAIN grants |-> grants[p[i]]]

SiteFlags(site, grants) ==
    IF site = "bucket" THEN classifyBucketGrants(grants)
    ELSE classifyObjectGrants(grants)

(* C4: whenever either grant loop (bucket ACL check, object ACL check) has *)
(* run to its end on a grant list, hasPublicWrite is true iff some grant   *)
(* has grantee type Group, the AllUsers URI and permission WRITE or        *)
(* FULL_CONTROL, hasPublicRead is true iff some grant has that grantee and *)
(* permission READ, and every reordering of the list gives the same flags. *)
C4_Classifier ==
    (cl.site # "idle" /\ ~cl.flags.panic) =>
        /\ cl.flags.hasPublicWrite =
              (\E i \in DOMAIN cl.grants :
                  /\ cl.grants[i].gtype = "Group"
                  /\ cl.grants[i].uri = AllUsers
                  /\ cl.grants[i].perm \in {"WRITE", "FULL_CONTROL"})
        /\ cl.flags.hasPublicRead =
              (\E i \in DOMAIN cl.grants :
                  /\ cl.grants[i].gtype = "Group"
                  /\ cl.grants[i].uri = AllUsers
                  /\ cl.grants[i].perm = "READ")
        /\ \A p \in Permutations(DOMAIN cl.grants) :
              SiteFlags(cl.site, Reordered(cl.grants, p)) = cl.flags

(* The object loop on a list that sets both flags, the write flag through  *)
(* FULL_CONTROL and from the first grant.                                  *)
C4_Witness ==
    /\ cl.site = "object"
    /\ Len(cl.grants) = 2
    /\ cl.grants[1] = Grant("Group", AllUsers, "FULL_CONTROL")
    /\ cl.grants[2] = Grant("Group", AllUsers, "READ")
    /\ cl.flags.hasPublicRead /\ cl.flags.hasPublicWrite

HasPublicWriteGrant(acl) ==
    \E i \in DOMAIN acl :
        /\ acl[i].gtype = "Group" /\ acl[i].uri = AllUsers
        /\ acl[i].perm \in {"WRITE", "FULL_CONTROL"}

(* The objects of bucket b that carried a public-write grant before the run. *)
PublicWriteObjects0(b) ==
    {k \in world0[b].keys : HasPublicWriteGrant(world0[b].oacl[k])}

(* The positions in l.out of the findings of one kind about objects.       *)
ObjectFindings(l, what) ==
    {n \in DOMAIN l.out :
        l.out[n].kind = "finding" /\ l.out[n].what = what /\ l.out[n].key # NoKey}

(* C5: when processBucket has returned without -q and with no call having  *)
(* failed, for a bucket that had at least 5 objects carrying a public-write *)
(* grant, exactly 5 PublicWrite object findings were printed and the last  *)
(* remote call made is the GetObjectAcl of the object of the 5th one.      *)
C5_ExactlyFive ==
    \A w \in DOMAIN wk :
        LET l == wk[w]
            pw == ObjectFindings(l, "PublicWrite")
        IN (/\ l.pc = "Done" /\ ~quick /\ faults = 0
            /\ Cardinality(PublicWriteObjects0(l.bucket)) >= 5)
           => /\ Cardinality(pw) = 5
              /\ l.ops[Len(l.ops)].op = "GetObjectAcl"
              /\ \E n \in pw : /\ \A m \in pw : m <= n
                               /\ l.out[n].key = l.ops[Len(l.ops)].key

Returns(i) == Len(result[i])

C7_NoneInFlightAtEnd ==
    proc # "running" => \A w \in DOMAIN wk : ~InFlight(w)

(* C7 amended: when main returns (the normal exit), the input has been     *)
(* read to its end, the channel is closed, every worker has left its loop  *)
(* and no processBucket call is in flight.                                 *)
C7_JoinBeforeReturn ==
    proc = "exited" =>
        /\ scanned = Len(stdin)
        /\ closed
        /\ \A w \in DOMAIN wk : wk[w].pc = "exited"
        /\ \A i \in Lines : started[i] = Returns(i)

(* A normal exit after two workers handled a bucket each.                  *)
C7_Witness ==
    /\ proc = "exited" /\ concurrency = 2 /\ Len(stdin) = 2
    /\ Returns(1) = 1 /\ Returns(2) = 1

(* Worker w's step is a call that failed.                                  *)
ErrorStep(w) ==
    /\ wk[w].pc \in InFlightStages
    /\ wk'[w] # wk[w]
    /\ wk'[w].resp.err

(* C8: a step in which a call of worker w's pipeline fails changes nothing *)
(* but w's own locals and its own bucket's result: the other workers, the  *)
(* main goroutine, the channel and the remote state are as before, and the *)
(* process keeps running with w still in its pipeline or returned from it, *)
(* unless the failed call is the config load, which ends the process; and  *)
(* a run that ends normally has processed every bucket, failures or not.   *)
C8_ErrorsContained ==
    /\ [][\A w \in DOMAIN wk : ErrorStep(w) =>
            /\ \A v \in DOMAIN wk \ {w} : wk'[v] = wk[v]
            /\ <<stdin, scanned, mainPc, closed, started, world>>'
                  = <<stdin, scanned, mainPc, closed, started, world>>
            /\ \A i \in Lines \ {wk[w].task} : result'[i] = result[i]
            /\ IF wk[w].pc = "LoadConfig"
               THEN proc' = "fatal"
               ELSE /\ proc' = "running"
                    /\ wk'[w].pc \in InFlightStages \cup {"Done"}]_vars
    /\ [](proc = "exited" => \A i \in Lines : Returns(i) = 1)

(* A listing page failed for the first bucket; the second was still        *)
(* processed to its end and the run ended normally.                        *)
C8_Witness ==
    /\ proc = "exited" /\ faults = 1 /\ Len(stdin) = 2
    /\ result[1] = <<"PageError">>
    /\ result[2] = <<"Complete">>

(* C9: once region resolution has failed for a worker's bucket, that       *)
(* pipeline is at Done having made the HEAD request and no other call and  *)
(* printed no finding, the bucket's result is the region-failure return,   *)
(* and the worker can go back to receive the next name.                    *)
C9_RegionFailureSkips ==
    \A w \in DOMAIN wk :
        LET l == wk[w]
        IN (l.resp.op = "HeadBucket" /\ l.resp.err) =>
              /\ l.pc = "Done"
              /\ l.ops = <<[op |-> "HeadBucket", key |-> NoKey]>>
              /\ \A n \in DOMAIN l.out : l.out[n].kind # "finding"
              /\ result[l.task] = <<"RegionFailed">>
              /\ proc = "running" => ENABLED WorkerLoop(w)

(* The HEAD response carried no region header, under -a without -q.        *)
C9_Witness ==
    /\ aggressive /\ ~quick
    /\ \E w \in DOMAIN wk :
          /\ wk[w].resp.op = "HeadBucket"
          /\ wk[w].resp.why = "RegionNotFound"
          /\ wk[w].pc = "Done"

(* The findings among printed lines, without their colour.                 *)
FindingsOf(out) ==
    LET f == SelectSeq(out, LAMBDA x : x.kind = "finding")
    IN [n \in DOMAIN f |-> [what |-> f[n].what, key |-> f[n].key]]

(* What of a worker's locals is not diagnostics: where it is, the calls it *)
(* made, the findings it printed, and its loop state.                      *)
Visible(l) ==
    [pc |-> l.pc, ops |-> l.ops, findings |-> FindingsOf(l.out),
     issueCounter |-> l.issueCounter, token |-> l.token, more |-> l.more,
     page |-> l.page, idx |-> l.idx, region |-> l.region]

(* C10: for every step of every pipeline and every response, running the   *)
(* step with -v and without -v from the same locals gives the same next    *)
(* stage, the same calls and the same findings (so, step by step, whole    *)
(* runs agree); the step taken is that one; and a failed call adds no      *)
(* finding in either mode.                                                 *)
C10_VerboseNeutral ==
    [][\A w \in DOMAIN wk :
          (wk[w].pc \in InFlightStages /\ wk'[w] # wk[w]) =>
              LET r == wk'[w].resp
                  on == pipelineStep([Cfg EXCEPT !.verbose = TRUE], wk[w], r)
                  off == pipelineStep([Cfg EXCEPT !.verbose = FALSE], wk[w], r)
              IN /\ Visible(on) = Visible(off)
                 /\ Visible(wk'[w]) = Visible(on)
                 /\ r.err => /\ FindingsOf(on.out) = FindingsOf(wk[w].out)
                             /\ FindingsOf(off.out) = FindingsOf(wk[w].out)]_vars

(* Verbose and aggressive: an upload was allowed and an object-ACL probe   *)
(* failed, with its diagnostic printed.                                    *)
C10_Witness ==
    /\ verbose /\ aggressive
    /\ \E w \in DOMAIN wk :
          /\ \E n \in DOMAIN wk[w].out :
                wk[w].out[n].kind = "finding" /\ wk[w].out[n].what = "UploadAllowed"
          /\ \E n \in DOMAIN wk[w].out :
                wk[w].out[n].kind = "diag"
                /\ wk[w].out[n].what = "Failed to write object ACP"

----------------------------------------------------------------------------
(* The position of a call in processBucket, main.go:76-102: the region     *)
(* lookup, the bucket ACL check, the listing check, the two bucket probes, *)
(* and the calls of iterateBucket.                                         *)
OpRank(op) ==
    CASE op = "HeadBucket" -> 1
      [] op = "GetBucketAcl" -> 2
      [] op = "ListObjectsV2One" -> 3
      [] op = "PutObject" -> 4
      [] op = "PutBucketAcl" -> 5
      [] OTHER -> 6

(* The call a worker at pc is about to make.                               *)
PcRank(pc) ==
    CASE pc = "ResolveRegion" -> 1
      [] pc = "CheckBucketACL" -> 2
      [] pc = "CheckOpenListing" -> 3
      [] pc = "TestUpload" -> 4
      [] pc = "PutBucketACP" -> 5
      [] OTHER -> 6

(* The stage a finding belongs to.                                         *)
FindingRank(x) ==
    CASE x.key # NoKey -> 6
      [] x.what \in {"PublicWrite", "PublicRead"} -> 2
      [] x.what = "OpenListing" -> 3
      [] x.what = "UploadAllowed" -> 4
      [] x.what = "BucketPolicyWritable" -> 5
      [] OTHER -> 6

(* The stage that may follow stage a under flags c (0: none but Done).     *)
StageAfter(c, a) ==
    CASE a = 1 -> 2
      [] a = 2 -> 3
      [] a = 3 -> IF c.quick THEN 0 ELSE IF c.aggressive THEN 4 ELSE 6
      [] a = 4 -> 5
      [] a = 5 -> 6
      [] OTHER -> 6

(* The stages of the calls l has made, followed by the stage of the call   *)
(* it is about to make.                                                    *)
StageTrace(l) ==
    [k \in DOMAIN l.ops |-> OpRank(l.ops[k].op)]
       \o (IF proc = "running" /\ l.pc \in InFlightStages \ {"LoadConfig"}
           THEN <<PcRank(l.pc)>> ELSE <<>>)

(* C11: in every worker, the calls made so far and the one about to be     *)
(* made begin with the region lookup; each later one belongs to the same   *)
(* stage as the call before it only inside the object enumeration, and     *)
(* otherwise to the one stage that follows under the flags (bucket ACL,    *)
(* listing check, then nothing under -q, the upload probe and the bucket   *)
(* ACL probe under -a, then enumeration); so no stage is skipped, repeated *)
(* or entered early.  The findings printed are in stage order, and each    *)
(* was printed after the call of its stage was made.                       *)
C11_StageOrder ==
    \A w \in DOMAIN wk :
        LET l == wk[w]
            t == StageTrace(l)
            f == SelectSeq(l.out, LAMBDA x : x.kind = "finding")
        IN /\ t # <<>> => t[1] = 1
           /\ \A k \in 2..Len(t) :
                 \/ t[k] = 6 /\ t[k - 1] = 6
                 \/ t[k] = StageAfter(Cfg, t[k - 1])
           /\ \A j, k \in DOMAIN f : j < k => FindingRank(f[j]) <= FindingRank(f[k])
           /\ \A k \in DOMAIN f :
                 \E n \in DOMAIN l.ops : OpRank(l.ops[n].op) = FindingRank(f[k])
           /\ l.pc = "Done" => l.ops # <<>>

(* Under -a without -q a pipeline went through every stage to Done and     *)
(* printed a finding in each of them.                                      *)
C11_Witness ==
    /\ aggressive /\ ~quick
    /\ \E w \in DOMAIN wk :
          LET l == wk[w]
              f == SelectSeq(l.out, LAMBDA x : x.kind = "finding")
          IN /\ l.pc = "Done"
             /\ {FindingRank(f[k]) : k \in DOMAIN f} = 2..6
             /\ {OpRank(l.ops[n].op) : n \in DOMAIN l.ops} = 1..6

----------------------------------------------------------------------------
(* Worker w's step is a listing page request of iterateBucket that failed. *)
PageErrorStep(w) ==
    /\ wk[w].pc = "NextPage"
    /\ wk'[w] # wk[w]
    /\ wk'[w].resp.err

(* C12: a worker whose listing page request failed is at Done, that        *)
(* request is the last call it made, and its bucket's result is the        *)
(* page-error return; the failing step keeps every line printed so far for *)
(* the bucket and adds no finding, and it leaves the other workers, the    *)
(* other buckets' results, the main goroutine, the remote state and the    *)
(* process as they were.                                                   *)
C12_PageErrorStops ==
    /\ [](\A w \in DOMAIN wk :
            LET l == wk[w]
            IN (l.resp.op = "ListObjectsV2Page" /\ l.resp.err) =>
                  /\ l.pc = "Done"
                  /\ l.ops[Len(l.ops)].op = "ListObjectsV2Page"
                  /\ result[l.task] = <<"PageError">>)
    /\ [][\A w \in DOMAIN wk : PageErrorStep(w) =>
            /\ SubSeq(wk'[w].out, 1, Len(wk[w].out)) = wk[w].out
            /\ FindingsOf(wk'[w].out) = FindingsOf(wk[w].out)
            /\ wk'[w].ops = Append(wk[w].ops,
                                   [op |-> "ListObjectsV2Page", key |-> wk[w].token])
            /\ \A v \in DOMAIN wk \ {w} : wk'[v] = wk[v]
            /\ \A i \in Lines \ {wk[w].task} : result'[i] = result[i]
            /\ <<scanned, mainPc, closed, started, world, proc>>'
                  = <<scanned, mainPc, closed, started, world, proc>>]_vars

(* The second page of a bucket failed after the objects of the first page  *)
(* had been reported.                                                      *)
C12_Witness ==
    \E w \in DOMAIN wk :
        LET l == wk[w]
        IN /\ l.resp.op = "ListObjectsV2Page" /\ l.resp.err
           /\ l.pc = "Done"
           /\ Cardinality(ObjectFindings(l, "PublicWrite")) = PageSize
           /\ world[l.bucket].keys \ {k \in Keys : k <= PageSize} # {}

----------------------------------------------------------------------------
(* l has started iterateBucket's paging.                                   *)
Enumerating(l) == \E n \in DOMAIN l.ops : l.ops[n].op = "ListObjectsV2Page"

(* C13: in every worker the issue counter is between 0 and 5, equals the   *)
(* number of PublicWrite object findings printed for its bucket, is 0      *)
(* until the bucket's enumeration has started, and is 5 exactly when the   *)
(* pipeline took the early return; a worker's step leaves every other      *)
(* worker's counter as it was.                                             *)
C13_IssueCounter ==
    /\ [](\A w \in DOMAIN wk :
            LET l == wk[w]
            IN /\ l.issueCounter \in 0..IssueLimit
               /\ l.issueCounter = Cardinality(ObjectFindings(l, "PublicWrite"))
               /\ ~Enumerating(l) => l.issueCounter = 0
               /\ l.issueCounter = IssueLimit => l.pc = "Done"
               /\ l.pc = "Done" =>
                     (l.issueCounter = IssueLimit <=> result[l.task] = <<"EarlyExit">>))
    /\ [][\A w, v \in DOMAIN wk :
            (w # v /\ wk'[w] # wk[w]) => wk'[v].issueCounter = wk[v].issueCounter]_vars

(* Two workers: one stopped its bucket at the fifth publicly writable      *)
(* object, the other enumerated its own bucket to the end.                 *)
C13_Witness ==
    /\ concurrency = 2
    /\ \E w, v \in DOMAIN wk :
          /\ wk[w].pc = "Done" /\ wk[w].issueCounter = IssueLimit
          /\ wk[v].pc = "Done" /\ wk[v].bucket = "private-bucket"
          /\ result[wk[v].task] = <<"Complete">>
          /\ Cardinality(ObjectFindings(wk[v], "PublicRead")) = 1

----------------------------------------------------------------------------
(* The per-object calls l has made, in order.                              *)
ObjectOps(ops) ==
    SelectSeq(ops, LAMBDA x : x.op \in {"PutObjectAcl", "GetObjectAcl"})

(* The calls l has made since its latest listing page request.             *)
SincePage(ops) ==
    LET P == {n \in DOMAIN ops : ops[n].op = "ListObjectsV2Page"}
    IN IF P = {} THEN <<>>
       ELSE SubSeq(ops, (CHOOSE n \in P : \A m \in P : m <= n) + 1, Len(ops))

(* Worker w's step is a GetObjectAcl call that failed.                     *)
ObjectAclErrorStep(w) ==
    /\ wk[w].pc = "GetObjectAcl"
    /\ wk'[w] # wk[w]
    /\ wk'[w].resp.err

(* C14: in every worker's enumeration, the ACL fetches are made in listing *)
(* order, one per object and without skipping a listed object; under -a    *)
(* each fetch comes right after the policy probe of the same object, and   *)
(* without -a no policy probe is made; every object line printed is about  *)
(* the object fetched last (so object i is finished before object i+1 is   *)
(* touched); and a failed fetch prints no finding and goes on to the next  *)
(* listed object, the next page, or the end of the listing.                *)
C14_PerObjectOrder ==
    /\ [](\A w \in DOMAIN wk :
            LET l == wk[w]
                o == ObjectOps(l.ops)
                got == SelectSeq(SincePage(l.ops), LAMBDA x : x.op = "GetObjectAcl")
            IN /\ \A n \in DOMAIN o :
                    /\ o[n].op = "GetObjectAcl" /\ aggressive =>
                          n > 1 /\ o[n - 1] = [op |-> "PutObjectAcl", key |-> o[n].key]
                    /\ o[n].op = "PutObjectAcl" =>
                          /\ aggressive
                          /\ n < Len(o) =>
                                o[n + 1] = [op |-> "GetObjectAcl", key |-> o[n].key]
                          /\ (n = Len(o) /\ proc = "running") => l.pc = "GetObjectAcl"
               /\ \A m, n \in DOMAIN o :
                    (m < n /\ o[m].op = o[n].op) => o[m].key < o[n].key
               /\ (proc = "running" /\ got # <<>>) =>
                    /\ Len(got) <= Len(l.page)
                    /\ \A n \in DOMAIN got : got[n].key = l.page[n]
                    /\ Len(got) \in {l.idx - 1, l.idx}
               /\ \A m, n \in DOMAIN l.out :
                    (m < n /\ l.out[m].key # NoKey /\ l.out[n].key # NoKey) =>
                       l.out[m].key <= l.out[n].key)
    /\ [][\A w \in DOMAIN wk :
            (wk[w].pc \in {"PutObjectACP", "GetObjectAcl"} /\ wk'[w] # wk[w]) =>
               LET key == wk[w].page[wk[w].idx]
                   op == IF wk[w].pc = "PutObjectACP" THEN "PutObjectAcl"
                         ELSE "GetObjectAcl"
               IN /\ wk'[w].ops = Append(wk[w].ops, [op |-> op, key |-> key])
                  /\ SubSeq(wk'[w].out, 1, Len(wk[w].out)) = wk[w].out
                  /\ \A n \in (Len(wk[w].out) + 1)..Len(wk'[w].out) :
                        wk'[w].out[n].key \in {key, NoKey}]_vars
    /\ [][\A w \in DOMAIN wk : ObjectAclErrorStep(w) =>
            /\ FindingsOf(wk'[w].out) = FindingsOf(wk[w].out)
            /\ wk'[w].issueCounter = wk[w].issueCounter
            /\ IF wk[w].idx < Len(wk[w].page)
               THEN /\ wk'[w].idx = wk[w].idx + 1
                    /\ wk'[w].pc = (IF aggressive THEN "PutObjectACP" ELSE "GetObjectAcl")
               ELSE wk'[w].pc = (IF wk[w].more THEN "NextPage" ELSE "Done")]_vars

(* Under -a and -v the ACL fetch of the first object failed, and the       *)
(* second object was then probed, fetched and reported.                    *)
C14_Witness ==
    /\ aggressive /\ verbose
    /\ \E w \in DOMAIN wk :
          LET l == wk[w]
          IN /\ \E n \in DOMAIN l.out :
                   l.out[n] = Diag("Failed to get ACL for object", 1)
             /\ \E n \in DOMAIN l.out :
                   l.out[n].kind = "finding" /\ l.out[n].what = "PublicRead"
                   /\ l.out[n].key = 2

----------------------------------------------------------------------------
(* The lines read from standard input whose processBucket call has not     *)
(* returned (or not begun).                                                *)
Unfinished == {i \in 1..scanned : Returns(i) = 0}

(* C15: every line read before the latest one has been received by a       *)
(* worker; the latest one is the only line that can be read and not yet    *)
(* received, and only while main is blocked in its send; and the lines     *)
(* read and not finished number at most the workers plus that one.         *)
C15_Backpressure ==
    /\ \A i \in 1..scanned : i < scanned => started[i] = 1
    /\ \A i \in 1..scanned : started[i] = 0 => (i = scanned /\ mainPc = "send")
    /\ Cardinality(Unfinished) <= Max(concurrency, 0) + 1

(* One worker busy with the first line while main is blocked sending the   *)
(* second: two lines read and unfinished under -c 1.                       *)
C15_Witness ==
    /\ concurrency = 1 /\ scanned = 2 /\ mainPc = "send"
    /\ InFlight(1) /\ wk[1].task = 1
    /\ Cardinality(Unfinished) = 2

----------------------------------------------------------------------------
(* A remote call that never returns.  No context deadline or client        *)
(* timeout is set (main.go:27, 71, 84-88), so the goroutine making the     *)
(* call stays in it for good.                                              *)

(* The call worker w is about to make stalls; at most one call ever does.  *)
Stall(w) ==
    /\ proc = "running" /\ w \in DOMAIN wk
    /\ wk[w].pc \in InFlightStages \ {"LoadConfig"}
    /\ \A v \in DOMAIN wk : wk[v].pc # "Stalled"
    /\ wk' = [wk EXCEPT ![w].pc = "Stalled"]
    /\ UNCHANGED <<verbose, aggressive, quick, concurrency, stdin, scanned,
                   mainPc, closed, proc, world, world0, started, result, faults, cl>>

(* At least two workers; three different buckets, so that the worker next  *)
(* to a stalled one has more than one bucket left to take, or a bucket     *)
(* whose ACL has a grant without grantee ahead of an ordinary one.         *)
StallInputs ==
    {<<"public-bucket", "private-bucket", BigName>>,
     <<"odd-bucket", "private-bucket">>}

InitStall ==
    /\ concurrency \in 2..MaxWorkers
    /\ stdin \in StallInputs
    /\ world = PoolWorld
    /\ InitCommon

(* With a worker there is always a goroutine besides main, so the runtime's *)
(* deadlock exit does not arise.                                           *)
StallMain == Scan \/ Close \/ Wait

StallNext == StallMain \/ \E w \in WorkerIds : (Worker(w) \/ Stall(w))

(* The scheduler is fair to main and to every worker; nothing makes the    *)
(* stalled call return.                                                    *)
StallSpec ==
    /\ InitStall /\ [][StallNext]_vars
    /\ WF_vars(StallMain)
    /\ \A w \in WorkerIds : WF_vars(Worker(w))

(* The response of the call l is about to make when it succeeds against    *)
(* bucket b.                                                               *)
okResponse(b, l) ==
    CASE l.pc = "LoadConfig" -> Ok("LoadDefaultConfig")
      [] l.pc = "ResolveRegion" -> getBucketRegion([neterr |-> FALSE, header |-> "us-west-2"])
      [] l.pc = "CheckBucketACL" -> [Ok("GetBucketAcl") EXCEPT !.grants = b.acl]
      [] l.pc = "CheckOpenListing" -> Ok("ListObjectsV2One")
      [] l.pc = "TestUpload" -> Ok("PutObject")
      [] l.pc = "PutBucketACP" -> Ok("PutBucketAcl")
      [] l.pc = "NextPage" ->
            [Ok("ListObjectsV2Page") EXCEPT !.keys = ListPage(b, l.token).keys,
                                            !.more = ListPage(b, l.token).more]
      [] l.pc = "PutObjectACP" -> Ok("PutObjectAcl")
      [] l.pc = "GetObjectAcl" -> [Ok("GetObjectAcl") EXCEPT !.grants = b.oacl[l.page[l.idx]]]
      [] OTHER -> NoResp

(* processBucket run on its own from locals l against bucket b, every call *)
(* succeeding: the locals when it returns (or panics).                     *)
RECURSIVE RunAlone(_, _, _)
RunAlone(c, l, b) ==
    IF l.pc \notin InFlightStages THEN l
    ELSE LET r == okResponse(b, l)
             l2 == pipelineStep(c, l, r)
         IN IF procAfter(l, r) # "running" THEN l2
            ELSE RunAlone(c, l2, worldAfter([n \in {l.bucket} |-> b], l, r)[l.bucket])

StalledOn(i) == \E w \in DOMAIN wk : wk[w].pc = "Stalled" /\ wk[w].task = i

(* The line's bucket name occurs once on standard input.                   *)
NamedOnce(i) == \A j \in Lines : stdin[j] = stdin[i] => j = i

----------------------------------------------------------------------------
(* C17: in every run in which every call returns and the scheduler is      *)
(* fair, for every -c value and every input, the process eventually ends   *)
(* by main returning, with the channel closed and the join passed (or by   *)
(* log.Fatalf or a panic in a pipeline before that).                       *)
C17_Terminates ==
    <>(\/ proc = "exited" /\ closed /\ mainPc = "returned"
       \/ proc \in {"fatal", "panic"})

----------------------------------------------------------------------------
(* The kinds of finding among the lines a step added to out.               *)
AddedFindings(before, after) ==
    {after[n].what : n \in {k \in (Len(before) + 1)..Len(after) : after[k].kind = "finding"}}

(* Worker w's step is a GetObjectAcl call that succeeded and whose grants  *)
(* were classified.                                                        *)
ObjectClassifiedStep(w) ==
    /\ wk[w].pc = "GetObjectAcl"
    /\ wk'[w] # wk[w]
    /\ ~wk'[w].resp.err
    /\ ~classifyObjectGrants(wk'[w].resp.grants).panic

(* C18: the step that fetches an object's ACL successfully prints a        *)
(* PublicRead finding for the object iff the classification of the fetched *)
(* grants has hasPublicRead, and a PublicWrite finding iff it has          *)
(* hasPublicWrite, whatever the issue counter is.                          *)
C18_FindingsMatchFlags ==
    [][\A w \in DOMAIN wk : ObjectClassifiedStep(w) =>
          LET f == classifyObjectGrants(wk'[w].resp.grants)
              added == AddedFindings(wk[w].out, wk'[w].out)
          IN /\ ("PublicRead" \in added) = f.hasPublicRead
             /\ ("PublicWrite" \in added) = f.hasPublicWrite]_vars

----------------------------------------------------------------------------
(* The PublicRead and PublicWrite findings among printed lines, about the  *)
(* bucket and about its objects, in order.                                 *)
ExposureFindings(out) ==
    SelectSeq(FindingsOf(out), LAMBDA x : x.what \in {"PublicRead", "PublicWrite"})

(* C19: when a pipeline has returned, in a run without failed calls and    *)
(* for a bucket named once on the input, its PublicRead and PublicWrite    *)
(* findings are those processBucket prints without -a on the bucket as it  *)
(* was before the run.                                                     *)
C19_AggressiveNeutral ==
    \A w \in DOMAIN wk :
        (wk[w].pc = "Done" /\ faults = 0 /\ NamedOnce(wk[w].task)) =>
            ExposureFindings(wk[w].out)
               = ExposureFindings(
                    RunAlone([Cfg EXCEPT !.aggressive = FALSE],
                             Received(wk[w].task, wk[w].bucket),
                             world0[wk[w].bucket]).out)

----------------------------------------------------------------------------
(* A grant whose grantee is absent, or a Group grantee without URI.        *)
Incomplete(g) == g.gtype = "nil" \/ (g.gtype = "Group" /\ g.uri = NoURI)

(* C20: either grant loop, run on any grant list, ends without a panic,    *)
(* and its flags are those of the list without the grants whose grantee is *)
(* absent or is a Group without URI.                                       *)
C20_NoCrash ==
    cl.site # "idle" =>
        /\ ~cl.flags.panic
        /\ [hasPublicRead |-> cl.flags.hasPublicRead,
            hasPublicWrite |-> cl.flags.hasPublicWrite]
              = LET f == SiteFlags(cl.site, SelectSeq(cl.grants, LAMBDA g : ~Incomplete(g)))
                IN [hasPublicRead |-> f.hasPublicRead, hasPublicWrite |-> f.hasPublicWrite]

====
